---- MODULE Spec2Model ----
(***************************************************************************)
(* State-machine model of the IPFIX read/write codec (src/src/lib.rs) and  *)
(* of the template storage trait (src/src/template_store.rs).              *)
(*                                                                         *)
(* Byte streams are sequences of 0..255; reader positions are 0-based      *)
(* offsets, so the byte at offset p of b is b[p+1].  Fixed-width values    *)
(* other than Bool are held as their big-endian base-256 numeral.          *)
(***************************************************************************)
EXTENDS Integers, Sequences, FiniteSets, TLC

\* ------------------------------------------------------------------ bounds
MaxSets == 3
MaxRecords == 5
MaxSlice == 2
MaxPayload == 257
MaxFixedLen == 17

DataRecordsPerSet == 2

\* ------------------------------------------------------- program constants
U16MAX == 65535
VarLenShortLimit == 255
VarLenMax == 65532
ReservedIdMax == 255
HeaderSize == 16
SetHeaderSize == 4

\* ------------------------------------------------------------ wire helpers
Min(a, b) == IF a < b THEN a ELSE b

BE16(n) == << (n \div 256) % 256, n % 256 >>

BE32(n) == << (n \div 16777216) % 256, (n \div 65536) % 256, (n \div 256) % 256, n % 256 >>

FromBE(bs) == IF Len(bs) = 2 THEN bs[1] * 256 + bs[2]
              ELSE bs[1] * 16777216 + bs[2] * 65536 + bs[3] * 256 + bs[4]

\* Rust u16 addition as the release build computes it.
AddU16(a, b) == (a + b) % 65536

\* Results of a read: val and pos are meaningful when ok; on failure pos is
\* where the reader is left and err says why ("eof" is binrw's is_eof()).
\* canon is a ghost: FALSE once a value was decoded from a form the writer
\* never emits.
ROk(v, p, c) == [ok |-> TRUE, err |-> "", val |-> v, pos |-> p, canon |-> c]

RErr(e, p) == [ok |-> FALSE, err |-> e, val |-> <<>>, pos |-> p, canon |-> TRUE]

\* binrw integer read: read_exact of n bytes, position restored on failure.
ReadInt(b, p, end, n) ==
    IF p + n <= end THEN ROk(SubSeq(b, p + 1, p + n), p + n, TRUE) ELSE RErr("eof", p)

\* Variant for C25: the bytes are counted against the stream, not the limit.
ReadCountUnlimited(b, p, end, n) ==
    IF p + n <= Len(b) THEN ROk(SubSeq(b, p + 1, p + n), p + n, TRUE) ELSE RErr("eof", Len(b))

\* binrw count() into Vec<u8> (and [u8; N]): consumes what is there, then
\* reports end of file without seeking back.
ReadCount(b, p, end, n) ==
    IF p + n <= end THEN ROk(SubSeq(b, p + 1, p + n), p + n, TRUE) ELSE RErr("eof", end)

\* -------------------------------------------------------------- formatter
NoneU32 == [some |-> FALSE, v |-> 0]

SomeU32(n) == [some |-> TRUE, v |-> n]

unwrap_or(o, d) == IF o.some THEN o.v ELSE d

FieldSpec(ent, id, len) ==
    [information_element_identifier |-> id, field_length |-> len, enterprise_number |-> ent]

NoSpec == FieldSpec(NoneU32, 0, 0)

\* Entries of get_default_formatter() that the inputs below refer to.
DefaultFormatter ==
    (<<0, 4>> :> [name |-> "protocolIdentifier", ty |-> "UnsignedInt"])
    @@ (<<0, 147>> :> [name |-> "wlanSSID", ty |-> "String"])
    @@ (<<0, 210>> :> [name |-> "paddingOctets", ty |-> "Bytes"])

\* The default formatter extended by the caller with an enterprise element,
\* as the tests do with extend_formatter!.
Formatter == DefaultFormatter @@ (<<1, 1>> :> [name |-> "flag", ty |-> "Bool"])

KeyStr(name) == [k |-> "Str", name |-> name, spec |-> NoSpec]

KeyUnrecognized(spec) == [k |-> "Unrecognized", name |-> "", spec |-> spec]

\* Variant for C17: the formatter is asked for the identifier alone.
key_and_type_no_enterprise(spec, fmt) ==
    LET at == << 0, spec.information_element_identifier >>
    IN  IF at \in DOMAIN fmt
        THEN [key |-> KeyStr(fmt[at].name), ty |-> fmt[at].ty]
        ELSE [key |-> KeyUnrecognized(spec), ty |-> "Bytes"]

key_and_type(spec, fmt) ==
    LET at == << unwrap_or(spec.enterprise_number, 0), spec.information_element_identifier >>
    IN  IF at \in DOMAIN fmt
        THEN [key |-> KeyStr(fmt[at].name), ty |-> fmt[at].ty]
        ELSE [key |-> KeyUnrecognized(spec), ty |-> "Bytes"]

\* ------------------------------------------------------------- value codec
Val(variant, bytes, flag) == [variant |-> variant, bytes |-> bytes, b |-> flag]

\* Variant for C15: an unsigned integer of 3 bytes is read as a U32.
FixedVariantLoose(ty, length) ==
    CASE ty = "UnsignedInt" /\ length = 1 -> "U8"
      [] ty = "UnsignedInt" /\ length = 2 -> "U16"
      [] ty = "UnsignedInt" /\ length \in {3, 4} -> "U32"
      [] ty = "UnsignedInt" /\ length = 8 -> "U64"
      [] ty = "SignedInt" /\ length = 1 -> "I8"
      [] ty = "SignedInt" /\ length = 2 -> "I16"
      [] ty = "SignedInt" /\ length = 4 -> "I32"
      [] ty = "SignedInt" /\ length = 8 -> "I64"
      [] ty = "Float" /\ length = 4 -> "F32"
      [] ty = "Float" /\ length = 8 -> "F64"
      [] ty = "Bool" /\ length = 1 -> "Bool"
      [] ty = "MacAddress" /\ length = 6 -> "MacAddress"
      [] ty = "DateTimeSeconds" /\ length = 4 -> "DateTimeSeconds"
      [] ty = "DateTimeMilliseconds" /\ length = 8 -> "DateTimeMilliseconds"
      [] ty = "DateTimeMicroseconds" /\ length = 8 -> "DateTimeMicroseconds"
      [] ty = "DateTimeNanoseconds" /\ length = 8 -> "DateTimeNanoseconds"
      [] ty = "Ipv4Addr" /\ length = 4 -> "Ipv4Addr"
      [] ty = "Ipv6Addr" /\ length = 16 -> "Ipv6Addr"
      [] OTHER -> "Invalid"

FixedVariant(ty, length) ==
    CASE ty = "UnsignedInt" /\ length = 1 -> "U8"
      [] ty = "UnsignedInt" /\ length = 2 -> "U16"
      [] ty = "UnsignedInt" /\ length = 4 -> "U32"
      [] ty = "UnsignedInt" /\ length = 8 -> "U64"
      [] ty = "SignedInt" /\ length = 1 -> "I8"
      [] ty = "SignedInt" /\ length = 2 -> "I16"
      [] ty = "SignedInt" /\ length = 4 -> "I32"
      [] ty = "SignedInt" /\ length = 8 -> "I64"
      [] ty = "Float" /\ length = 4 -> "F32"
      [] ty = "Float" /\ length = 8 -> "F64"
      [] ty = "Bool" /\ length = 1 -> "Bool"
      [] ty = "MacAddress" /\ length = 6 -> "MacAddress"
      [] ty = "DateTimeSeconds" /\ length = 4 -> "DateTimeSeconds"
      [] ty = "DateTimeMilliseconds" /\ length = 8 -> "DateTimeMilliseconds"
      [] ty = "DateTimeMicroseconds" /\ length = 8 -> "DateTimeMicroseconds"
      [] ty = "DateTimeNanoseconds" /\ length = 8 -> "DateTimeNanoseconds"
      [] ty = "Ipv4Addr" /\ length = 4 -> "Ipv4Addr"
      [] ty = "Ipv6Addr" /\ length = 16 -> "Ipv6Addr"
      [] OTHER -> "Invalid"

\* Bytes a value variant occupies when written (its natural width).
NaturalWidth(variant) ==
    CASE variant \in {"U8", "I8", "Bool"} -> 1
      [] variant \in {"U16", "I16"} -> 2
      [] variant \in {"U32", "I32", "F32", "DateTimeSeconds", "Ipv4Addr"} -> 4
      [] variant = "MacAddress" -> 6
      [] variant = "Ipv6Addr" -> 16
      [] OTHER -> 8

\* String::from_utf8 accepts exactly the well-formed UTF-8 sequences: every
\* byte either opens a sequence of 1 to 4 bytes whose other bytes are
\* continuation bytes, or is a continuation byte of the sequence opened
\* within the three bytes before it.
Utf8Width(byte) ==
    IF byte < 128 THEN 1
    ELSE IF byte >= 194 /\ byte <= 223 THEN 2
    ELSE IF byte >= 224 /\ byte <= 239 THEN 3
    ELSE IF byte >= 240 /\ byte <= 244 THEN 4
    ELSE 0

Utf8Continuation(byte) == byte >= 128 /\ byte <= 191

Utf8Valid(bs) ==
    \A i \in DOMAIN bs :
        IF Utf8Continuation(bs[i])
        THEN \E j \in DOMAIN bs :
                 /\ j < i
                 /\ i - j < Utf8Width(bs[j])
                 /\ \A m \in (j + 1)..(i - 1) : Utf8Continuation(bs[m])
        ELSE /\ Utf8Width(bs[i]) > 0
             /\ i + Utf8Width(bs[i]) - 1 <= Len(bs)
             /\ \A m \in (i + 1)..(i + Utf8Width(bs[i]) - 1) : Utf8Continuation(bs[m])
             /\ (bs[i] = 224 => bs[i + 1] >= 160)
             /\ (bs[i] = 237 => bs[i + 1] <= 159)
             /\ (bs[i] = 240 => bs[i + 1] >= 144)
             /\ (bs[i] = 244 => bs[i + 1] <= 143)

read_variable_length(b, p, end, length) ==
    IF length = U16MAX
    THEN LET l1 == ReadInt(b, p, end, 1)
         IN  IF ~l1.ok THEN l1
             ELSE IF l1.val[1] = VarLenShortLimit
             THEN LET l2 == ReadInt(b, p + 1, end, 2)
                  IN  IF ~l2.ok THEN l2
                      ELSE LET r == ReadCount(b, p + 3, end, FromBE(l2.val))
                           IN  IF r.ok
                               THEN ROk(r.val, r.pos, FromBE(l2.val) >= VarLenShortLimit)
                               ELSE r
             ELSE ReadCount(b, p + 1, end, l1.val[1])
    ELSE ReadCount(b, p, end, length)

\* DataRecordValue::read_options
ReadValue(b, p, end, ty, length) ==
    IF ty = "Bytes"
    THEN LET r == read_variable_length(b, p, end, length)
         IN  IF r.ok THEN ROk(Val("Bytes", r.val, FALSE), r.pos, r.canon) ELSE r
    ELSE IF ty = "String"
    THEN LET r == read_variable_length(b, p, end, length)
         IN  IF ~r.ok THEN r
             ELSE IF Utf8Valid(r.val) THEN ROk(Val("String", r.val, FALSE), r.pos, r.canon)
             ELSE RErr("InvalidUtf8", r.pos)
    ELSE LET variant == FixedVariant(ty, length)
         IN  IF variant = "Invalid" THEN RErr("TypeLength", p)
             ELSE IF variant = "Bool"
             THEN LET r == ReadInt(b, p, end, 1)
                  IN  IF r.ok
                      THEN ROk(Val("Bool", <<>>, r.val[1] = 1), r.pos, r.val[1] \in {1, 2})
                      ELSE r
             ELSE IF variant = "MacAddress"
             THEN LET r == ReadCount(b, p, end, 6)
                  IN  IF r.ok THEN ROk(Val(variant, r.val, FALSE), r.pos, TRUE) ELSE r
             ELSE LET r == ReadInt(b, p, end, NaturalWidth(variant))
                  IN  IF r.ok THEN ROk(Val(variant, r.val, FALSE), r.pos, TRUE) ELSE r

\* ---------------------------------------------------------- record readers
\* FieldSpecifier (derived BinRead): the position is restored on any error.
ReadFieldSpecifier(b, p, end) ==
    LET raw == ReadInt(b, p, end, 2)
        len == ReadInt(b, p + 2, end, 2)
        ent == ReadInt(b, p + 4, end, 4)
    IN  IF ~raw.ok \/ ~len.ok THEN RErr("eof", p)
        ELSE IF FromBE(raw.val) \div 32768 = 1
        THEN IF ~ent.ok THEN RErr("eof", p)
             ELSE ROk(FieldSpec(SomeU32(FromBE(ent.val)), FromBE(raw.val) % 32768,
                                FromBE(len.val)), p + 8, TRUE)
        ELSE ROk(FieldSpec(NoneU32, FromBE(raw.val) % 32768, FromBE(len.val)), p + 4, TRUE)

\* #[br(count = field_count)] Vec<FieldSpecifier>
RECURSIVE ReadFieldSpecifiers(_, _, _, _, _)
ReadFieldSpecifiers(b, p, end, n, acc) ==
    IF n = 0 THEN ROk(acc, p, TRUE)
    ELSE LET r == ReadFieldSpecifier(b, p, end)
         IN  IF ~r.ok THEN r
             ELSE ReadFieldSpecifiers(b, r.pos, end, n - 1, Append(acc, r.val))

TemplateRecord(id, specs) == [template_id |-> id, field_specifiers |-> specs]

OptionsTemplateRecord(id, scope, specs) ==
    [template_id |-> id, scope_field_count |-> scope, field_specifiers |-> specs]

\* TemplateRecord (derived BinRead): fields first, then the struct-level
\* assert on template_id; the position is restored on any error.
ReadTemplateRecord(b, p, end) ==
    LET tid == ReadInt(b, p, end, 2)
        cnt == ReadInt(b, p + 2, end, 2)
    IN  IF ~tid.ok \/ ~cnt.ok THEN RErr("eof", p)
        ELSE LET fs == ReadFieldSpecifiers(b, p + 4, end, FromBE(cnt.val), <<>>)
             IN  IF ~fs.ok THEN RErr(fs.err, p)
                 ELSE IF ~(FromBE(tid.val) > ReservedIdMax) THEN RErr("ReservedTemplateId", p)
                 ELSE ROk(TemplateRecord(FromBE(tid.val), fs.val), fs.pos, TRUE)

ReadOptionsTemplateRecord(b, p, end) ==
    LET tid == ReadInt(b, p, end, 2)
        cnt == ReadInt(b, p + 2, end, 2)
        scope == ReadInt(b, p + 4, end, 2)
    IN  IF ~tid.ok \/ ~cnt.ok \/ ~scope.ok THEN RErr("eof", p)
        ELSE LET fs == ReadFieldSpecifiers(b, p + 6, end, FromBE(cnt.val), <<>>)
             IN  IF ~fs.ok THEN RErr(fs.err, p)
                 ELSE IF ~(FromBE(tid.val) > ReservedIdMax) THEN RErr("ReservedTemplateId", p)
                 ELSE ROk(OptionsTemplateRecord(FromBE(tid.val), FromBE(scope.val), fs.val),
                          fs.pos, TRUE)

DataRecord(values) == [values |-> values]

\* HashMap::insert: the new value replaces one stored under an equal key.
MapInsert(m, k, v) == (k :> v) @@ m

\* The field loop of DataRecord::read_options.  The ghost canon also turns
\* FALSE when two field specifiers of the template resolve to one key.
RECURSIVE ReadFields(_, _, _, _, _, _, _, _)
ReadFields(b, p, end, template, fmt, i, values, canon) ==
    IF i > Len(template) THEN ROk(DataRecord(values), p, canon)
    ELSE LET kt == key_and_type(template[i], fmt)
             r == ReadValue(b, p, end, kt.ty, template[i].field_length)
         IN  IF ~r.ok THEN r
             ELSE ReadFields(b, r.pos, end, template, fmt, i + 1,
                             MapInsert(values, kt.key, r.val),
                             canon /\ r.canon /\ kt.key \notin DOMAIN values)

\* Variant for C5: a data set whose template is missing reads as an empty set.
ReadDataRecordSkip(b, p, end, set_id, templates, fmt) ==
    IF set_id \notin DOMAIN templates THEN RErr("eof", p)
    ELSE ReadFields(b, p, end, templates[set_id], fmt, 1, <<>>, TRUE)

\* DataRecord::read_options: no position is restored by this hand-written
\* reader; a failed read leaves the reader where the failing value left it.
ReadDataRecord(b, p, end, set_id, templates, fmt) ==
    IF set_id \notin DOMAIN templates THEN RErr("MissingTemplate", p)
    ELSE ReadFields(b, p, end, templates[set_id], fmt, 1, <<>>, TRUE)

\* ------------------------------------------------------------- write sizes
WOk(v) == [ok |-> TRUE, err |-> "", val |-> v]

WErr(e) == [ok |-> FALSE, err |-> e, val |-> <<>>]

\* WriteSize for Vec<T>: the sum of the elements' sizes, first error wins.
RECURSIVE SumSizes(_)
SumSizes(results) ==
    IF results = <<>> THEN WOk(0)
    ELSE LET h == Head(results)
         IN  IF ~h.ok THEN h
             ELSE LET t == SumSizes(Tail(results))
                  IN  IF ~t.ok THEN t ELSE WOk(AddU16(h.val, t.val))

FieldSpecifierWriteSize(spec) == WOk(4 + (IF spec.enterprise_number.some THEN 4 ELSE 0))

TemplateRecordWriteSize(r) ==
    LET fs == SumSizes([i \in DOMAIN r.field_specifiers |->
            FieldSpecifierWriteSize(r.field_specifiers[i])])
    IN  IF fs.ok THEN WOk(AddU16(4, fs.val)) ELSE fs

OptionsTemplateRecordWriteSize(r) ==
    LET fs == SumSizes([i \in DOMAIN r.field_specifiers |->
            FieldSpecifierWriteSize(r.field_specifiers[i])])
    IN  IF fs.ok THEN WOk(AddU16(6, fs.val)) ELSE fs

\* DataRecordValue::write_size
ValueWriteSize(value, field_spec) ==
    IF field_spec.field_length = U16MAX
    THEN IF value.variant \notin {"Bytes", "String"} THEN WErr("NonVariableValue")
         ELSE IF Len(value.bytes) > VarLenMax THEN WErr("VariableLengthOverflow")
         ELSE IF Len(value.bytes) < VarLenShortLimit THEN WOk(Len(value.bytes) + 1)
         ELSE WOk(Len(value.bytes) + 3)
    ELSE WOk(field_spec.field_length)

RECURSIVE DataFieldsWriteSize(_, _, _, _, _)
DataFieldsWriteSize(rec, template, fmt, i, size) ==
    IF i > Len(template) THEN WOk(size)
    ELSE LET key == key_and_type(template[i], fmt).key
         IN  IF key \notin DOMAIN rec.values THEN WErr("MissingField")
             ELSE LET v == ValueWriteSize(rec.values[key], template[i])
                  IN  IF ~v.ok THEN v
                      ELSE DataFieldsWriteSize(rec, template, fmt, i + 1, AddU16(size, v.val))

DataRecordWriteSize(rec, set_id, templates, fmt) ==
    IF set_id \notin DOMAIN templates THEN WErr("MissingTemplate")
    ELSE DataFieldsWriteSize(rec, templates[set_id], fmt, 1, 0)

\* A Set holds its Records: kind is the variant, set_id what Records::set_id()
\* returns (2, 3, or the data set's id).
Set(kind, set_id, records) == [kind |-> kind, set_id |-> set_id, records |-> records]

RecordsWriteSize(set, templates, fmt) ==
    IF set.kind = "Template" THEN SumSizes([i \in DOMAIN set.records |->
            TemplateRecordWriteSize(set.records[i])])
    ELSE IF set.kind = "OptionsTemplate"
    THEN SumSizes([i \in DOMAIN set.records |-> OptionsTemplateRecordWriteSize(set.records[i])])
    ELSE LET size(rec) == DataRecordWriteSize(rec, set.set_id, templates, fmt)
         IN  SumSizes([i \in DOMAIN set.records |-> size(set.records[i])])

SetWriteSize(set, templates, fmt) ==
    LET r == RecordsWriteSize(set, templates, fmt)
    IN  IF r.ok THEN WOk(AddU16(SetHeaderSize, r.val)) ELSE r

Message(export_time, sequence_number, observation_domain_id, sets) ==
    [export_time |-> export_time, sequence_number |-> sequence_number,
     observation_domain_id |-> observation_domain_id, sets |-> sets]

MessageWriteSize(m, templates, fmt) ==
    LET size(set) == SetWriteSize(set, templates, fmt)
        r == SumSizes([i \in DOMAIN m.sets |-> size(m.sets[i])])
    IN  IF r.ok THEN WOk(AddU16(HeaderSize, r.val)) ELSE r

\* ------------------------------------------------------------------ writer
\* BinWrite for Vec<T>: the elements in order, stopping at the first error.
RECURSIVE ConcatWrites(_)
ConcatWrites(results) ==
    IF results = <<>> THEN WOk(<<>>)
    ELSE LET h == Head(results)
         IN  IF ~h.ok THEN h
             ELSE LET t == ConcatWrites(Tail(results))
                  IN  IF ~t.ok THEN t ELSE WOk(h.val \o t.val)

WriteFieldSpecifier(spec) ==
    LET raw == IF spec.enterprise_number.some
               THEN (spec.information_element_identifier % 32768) + 32768
               ELSE spec.information_element_identifier
    IN  WOk(BE16(raw) \o BE16(spec.field_length)
            \o (IF spec.enterprise_number.some THEN BE32(spec.enterprise_number.v) ELSE <<>>))

WriteTemplateRecord(r) ==
    LET fs == ConcatWrites([i \in DOMAIN r.field_specifiers |->
            WriteFieldSpecifier(r.field_specifiers[i])])
    IN  WOk(BE16(r.template_id) \o BE16(Len(r.field_specifiers)) \o fs.val)

WriteOptionsTemplateRecord(r) ==
    LET fs == ConcatWrites([i \in DOMAIN r.field_specifiers |->
            WriteFieldSpecifier(r.field_specifiers[i])])
    IN  WOk(BE16(r.template_id) \o BE16(Len(r.field_specifiers))
            \o BE16(r.scope_field_count) \o fs.val)

\* Variant for C14: the short prefix is chosen up to and including 255 bytes.
WriteValueShort255(value, length) ==
    IF value.variant \in {"Bytes", "String"}
    THEN LET n == Len(value.bytes)
             prefix == IF length # U16MAX THEN <<>>
                       ELSE IF n <= VarLenShortLimit THEN <<n>>
                       ELSE <<255>> \o BE16(n)
         IN  WOk(prefix \o value.bytes)
    ELSE IF value.variant = "Bool" THEN WOk(<< IF value.b THEN 1 ELSE 2 >>)
    ELSE WOk(value.bytes)

\* #[binwrite] DataRecordValue with import(length): only Bytes and String
\* look at length; every other variant writes its natural width.
WriteValue(value, length) ==
    IF value.variant \in {"Bytes", "String"}
    THEN LET n == Len(value.bytes)
             prefix == IF length # U16MAX THEN <<>>
                       ELSE IF n < VarLenShortLimit THEN <<n>>
                       ELSE <<255>> \o BE16(n)
         IN  IF length = U16MAX /\ n > U16MAX THEN WErr("TryFromInt")
             ELSE WOk(prefix \o value.bytes)
    ELSE IF value.variant = "Bool" THEN WOk(<< IF value.b THEN 1 ELSE 2 >>)
    ELSE WOk(value.bytes)

\* Variant for C24: a field the record has no value for is passed over.
RECURSIVE WriteDataFieldsLenient(_, _, _, _, _)
WriteDataFieldsLenient(rec, template, fmt, i, out) ==
    IF i > Len(template) THEN WOk(out)
    ELSE LET key == key_and_type(template[i], fmt).key
         IN  IF key \notin DOMAIN rec.values
             THEN WriteDataFieldsLenient(rec, template, fmt, i + 1, out)
             ELSE LET v == WriteValue(rec.values[key], template[i].field_length)
                  IN  IF ~v.ok THEN v
                      ELSE WriteDataFieldsLenient(rec, template, fmt, i + 1, out \o v.val)

RECURSIVE WriteDataFields(_, _, _, _, _)
WriteDataFields(rec, template, fmt, i, out) ==
    IF i > Len(template) THEN WOk(out)
    ELSE LET key == key_and_type(template[i], fmt).key
         IN  IF key \notin DOMAIN rec.values THEN WErr("MissingField")
             ELSE LET v == WriteValue(rec.values[key], template[i].field_length)
                  IN  IF ~v.ok THEN v
                      ELSE WriteDataFields(rec, template, fmt, i + 1, out \o v.val)

WriteDataRecord(rec, set_id, templates, fmt) ==
    IF set_id \notin DOMAIN templates THEN WErr("MissingTemplate")
    ELSE WriteDataFields(rec, templates[set_id], fmt, 1, <<>>)

WriteRecords(set, templates, fmt) ==
    IF set.kind = "Template" THEN ConcatWrites([i \in DOMAIN set.records |->
            WriteTemplateRecord(set.records[i])])
    ELSE IF set.kind = "OptionsTemplate" THEN ConcatWrites([i \in DOMAIN set.records |->
            WriteOptionsTemplateRecord(set.records[i])])
    ELSE LET write(rec) == WriteDataRecord(rec, set.set_id, templates, fmt)
         IN  ConcatWrites([i \in DOMAIN set.records |-> write(set.records[i])])

\* Set (binrw write): set_id, then length from try_calc write_size, then records.
WriteSet(set, templates, fmt) ==
    LET size == SetWriteSize(set, templates, fmt)
        recs == WriteRecords(set, templates, fmt)
    IN  IF ~size.ok THEN size
        ELSE IF ~recs.ok THEN recs
        ELSE WOk(BE16(set.set_id) \o BE16(size.val) \o recs.val)

\* Message (binrw write): magic 10, length from try_calc write_size, header, sets.
WriteMessage(m, templates, fmt) ==
    LET size == MessageWriteSize(m, templates, fmt)
        write(set) == WriteSet(set, templates, fmt)
        body == ConcatWrites([i \in DOMAIN m.sets |-> write(m.sets[i])])
    IN  IF ~size.ok THEN size
        ELSE IF ~body.ok THEN body
        ELSE WOk(BE16(10) \o BE16(size.val) \o BE32(m.export_time)
                 \o BE32(m.sequence_number) \o BE32(m.observation_domain_id) \o body.val)

\* ---------------------------------------------------------- template store
\* Variant for C3: an id that already has a template keeps it.
RECURSIVE insert_template_records_keep(_, _)
insert_template_records_keep(templates, new_templates) ==
    IF new_templates = <<>> THEN templates
    ELSE insert_template_records_keep(
             IF Head(new_templates).template_id \in DOMAIN templates THEN templates
             ELSE MapInsert(templates, Head(new_templates).template_id,
                            Head(new_templates).field_specifiers),
             Tail(new_templates))

\* insert_template_records (lib.rs): HashMap::insert per record, in order.
RECURSIVE insert_template_records(_, _)
insert_template_records(templates, new_templates) ==
    IF new_templates = <<>> THEN templates
    ELSE insert_template_records(
             MapInsert(templates, Head(new_templates).template_id,
                       Head(new_templates).field_specifiers),
             Tail(new_templates))

\* ------------------------------------------------------------------ inputs
\* Whole sets as they appear on the wire.
SetChoices ==
    << << 0, 2, 0, 12, 1, 0, 0, 1, 0, 4, 0, 1 >>,                 \* template 256: protocolIdentifier(1)
       << 0, 2, 0, 12, 1, 0, 0, 1, 3, 231, 255, 255 >>,           \* template 256: element 999, variable
       << 0, 2, 0, 8, 1, 0, 0, 0 >>,                              \* template 256: no field specifiers
       << 0, 2, 0, 16, 1, 0, 0, 1, 128, 1, 0, 1, 0, 0, 0, 1 >>,   \* template 256: enterprise 1 flag(1)
       << 0, 2, 0, 16, 1, 0, 0, 2, 0, 4, 0, 1, 0, 4, 0, 1 >>,     \* template 256: protocolIdentifier twice
       << 0, 3, 0, 14, 1, 1, 0, 1, 0, 1, 0, 4, 0, 1 >>,           \* options template 257
       << 1, 0, 0, 6, 1, 3 >>,                                    \* data set 256
       << 1, 0, 0, 8, 255, 0, 1, 7 >>,                            \* data set 256
       << 1, 1, 0, 5, 1 >>,                                       \* data set 257
       << 0, 2, 0, 12, 1, 1, 0, 1, 0, 4, 0, 1 >> >>               \* template 257: protocolIdentifier(1)

RECURSIVE Flatten(_)
Flatten(ss) == IF ss = <<>> THEN <<>> ELSE Head(ss) \o Flatten(Tail(ss))

\* A message header (export time 1, sequence number 2, domain 3) and a body.
MessageBytes(magic, length, body) ==
    BE16(magic) \o BE16(length) \o BE32(1) \o BE32(2) \o BE32(3) \o body

WellFramed(body) == MessageBytes(10, HeaderSize + Len(body), body)

\* Inputs outside the product of SetChoices: a damaged header, stray or
\* missing bytes, reserved ids, padding, streams that end before the length
\* their header declares, inner lengths that reach past the end of their set.
ExtraInputs ==
    { MessageBytes(9, 16, <<>>),
      << 0, 10, 0 >>,
      MessageBytes(10, 0, SetChoices[1]),
      WellFramed(SetChoices[1] \o << 0 >>),
      WellFramed(<< 0, 2, 0, 12, 0, 255, 0, 1, 0, 4, 0, 1 >>),
      WellFramed(SetChoices[1] \o << 0, 2, 0, 12, 0, 255, 0, 1, 0, 4, 0, 1 >>),
      WellFramed(<< 0, 4, 0, 5, 0 >>),
      WellFramed(<< 0, 0, 0, 5, 0 >>),
      WellFramed(<< 0, 1, 0, 5, 0 >>),
      WellFramed(SetChoices[1] \o << 0, 255, 0, 5, 0 >>),
      WellFramed(<< 0, 4, 0, 4 >>),
      WellFramed(<< 0, 2, 0, 12, 1, 0, 0, 1, 3, 231, 0, 2 >> \o << 1, 0, 0, 6, 8, 9 >>),
      WellFramed(<< 0, 2, 0, 16, 1, 0, 0, 1, 128, 4, 0, 1, 0, 0, 0, 5 >> \o << 1, 0, 0, 5, 9 >>),
      WellFramed(<< 0, 2, 0, 16, 1, 0, 0, 1, 128, 4, 0, 1, 0, 0, 0, 0 >> \o << 1, 0, 0, 5, 9 >>),
      WellFramed(<< 1, 0, 0, 4 >>),
      WellFramed(<< 0, 2, 0, 14, 1, 0, 0, 1, 0, 4, 0, 1, 0, 0 >>),
      WellFramed(<< 0, 2, 0, 14, 1, 0, 0, 1, 0, 4, 0, 1, 0, 0 >> \o SetChoices[7]),
      WellFramed(SetChoices[1] \o << 1, 0, 0, 8, 1 >>),
      WellFramed(SetChoices[1] \o << 1, 0, 0, 6, 1 >> \o SetChoices[7]),
      MessageBytes(10, 36, SetChoices[1] \o << 1, 0, 0, 8, 1 >>),
      MessageBytes(10, 34, SetChoices[1] \o << 1, 0 >>),
      MessageBytes(10, 28, << 0, 2, 0, 12, 1, 0, 0, 1, 0, 4 >>),
      WellFramed(SetChoices[2] \o << 1, 0, 0, 6, 5, 3 >> \o SetChoices[7]),
      WellFramed(SetChoices[2] \o << 1, 0, 0, 8, 255, 0, 9, 3 >> \o SetChoices[8]),
      WellFramed(<< 0, 2, 0, 12, 1, 0, 0, 2, 0, 4, 0, 1 >> \o SetChoices[1]),
      WellFramed(<< 0, 2, 0, 20, 1, 0, 0, 1, 0, 4, 0, 1, 0, 255, 0, 1, 0, 4, 0, 1 >>) }

Inputs ==
    { WellFramed(Flatten([i \in DOMAIN c |-> SetChoices[c[i]]])) :
          c \in UNION { [1..k -> 1..Len(SetChoices)] : k \in 0..MaxSets } }
    \cup ExtraInputs
\* ------------------------------------------------------------------- state
VARIABLES
    templates,   \* Templates: template_id -> Vec<FieldSpecifier> (lib.rs)
    input,       \* the bytes behind the reader
    pos,         \* the reader's stream position
    pc,          \* "idle", "sets", "records", "done", "failed", "wrote"
    header,      \* export_time, sequence_number, observation_domain_id, and the temp length
    cur,         \* the set being read: kind, set_id, start, declared length, limit, records
    sets,        \* the Vec<Set> built so far (kept after a failure as history)
    result,      \* what Message::read_args returned
    written,     \* what the last write_args call was given and produced
    store0,      \* ghost: the store when the current read began
    used,        \* ghost: per set read, the template its data records were decoded with
    canon,       \* ghost: FALSE once the input left the form the writer emits
    lengths,     \* ghost: per set read, the length field of its header
    borrowed_io, \* ghost: TRUE once a record's bytes were read under a live borrow of the store
    storage,     \* TemplateStorage: template_id -> Template (template_store.rs)
    got,         \* the last get_template call and its result
    latest,      \* ghost: per id, the template most recently handed to the storage
    probe,       \* the last single call of a codec function: arguments and results
    shared,      \* the HashMap behind the Arc<RwLock<_>> two threads share
    lock,        \* that RwLock: the thread holding it for writing, the threads reading
    thread       \* per thread: where it stands in parsing its message

vars == << templates, input, pos, pc, header, cur, sets, result, written,
           store0, used, canon, lengths, borrowed_io, storage, got, latest, probe, shared, lock, thread >>

readerVars == << input, pos, pc, header, cur, sets, result, store0, used, canon, lengths,
                borrowed_io >>

storageVars == << storage, got, latest >>

codecVars == << probe >>

threadVars == << shared, lock, thread >>

\* Everything a step of the codec functions or of the storage leaves alone.
messageVars == << templates, readerVars, written >>

NoCur == [kind |-> "", set_id |-> 0, start |-> 0, length |-> 0, limit |-> 0, records |-> <<>>]

NoHeader == [length |-> 0, export_time |-> 0, sequence_number |-> 0, observation_domain_id |-> 0]

NoMessage == Message(0, 0, 0, <<>>)

NoResult == [returned |-> FALSE, ok |-> FALSE, err |-> "", id |-> 0, msg |-> NoMessage]

ReadOk(m) == [returned |-> TRUE, ok |-> TRUE, err |-> "", id |-> 0, msg |-> m]

ReadErr(e, id) == [returned |-> TRUE, ok |-> FALSE, err |-> e, id |-> id, msg |-> NoMessage]

NoWrite == [done |-> FALSE, msg |-> NoMessage, res |-> WErr("")]

NoGot == [called |-> FALSE, id |-> 0, some |-> FALSE, template |-> <<>>]

NoProbe == [op |-> "none"]

\* RwLock::new: nobody holds the lock.
RwLockNew == [writer |-> "", readers |-> {}]

\* The two threads of the shared-store scenario, by the message each parses.
Threads == {"templates", "data"}

ThreadStart == [at |-> "io", next |-> 1, err |-> "", early |-> FALSE]

Init ==
    /\ templates = <<>>
    /\ input = <<>>
    /\ pos = 0
    /\ pc = "idle"
    /\ header = NoHeader
    /\ cur = NoCur
    /\ sets = <<>>
    /\ result = NoResult
    /\ written = NoWrite
    /\ store0 = templates
    /\ used = <<>>
    /\ canon = TRUE
    /\ lengths = <<>>
    /\ borrowed_io = FALSE
    /\ storage = <<>>
    /\ got = NoGot
    /\ latest = <<>>
    /\ shared = <<>>
    /\ lock = RwLockNew
    /\ thread = [t \in Threads |-> ThreadStart]
    /\ probe = NoProbe

\* ------------------------------------------------------------------ reader
\* Message::read_args on the bytes b, up to the first set: magic, then the
\* four header fields.
ReadHeader(b) ==
    LET magic == ReadInt(b, 0, Len(b), 2)
        hdr == ReadInt(b, 2, Len(b), 14)
    IN  /\ input' = b
        /\ sets' = <<>>
        /\ used' = <<>>
        /\ cur' = NoCur
        /\ store0' = templates
        /\ borrowed_io' = FALSE
        /\ lengths' = <<>>
        /\ IF ~magic.ok \/ (FromBE(magic.val) = 10 /\ ~hdr.ok)
           THEN /\ pc' = "failed"
                /\ result' = ReadErr("eof", 0)
                /\ UNCHANGED << pos, header, canon >>
           ELSE IF FromBE(magic.val) # 10
           THEN /\ pc' = "failed"
                /\ result' = ReadErr("BadMagic", 0)
                /\ UNCHANGED << pos, header, canon >>
           ELSE /\ pc' = "sets"
                /\ pos' = HeaderSize
                /\ header' = [length |-> FromBE(SubSeq(hdr.val, 1, 2)),
                              export_time |-> FromBE(SubSeq(hdr.val, 3, 6)),
                              sequence_number |-> FromBE(SubSeq(hdr.val, 7, 10)),
                              observation_domain_id |-> FromBE(SubSeq(hdr.val, 11, 14))]
                /\ canon' = (FromBE(SubSeq(hdr.val, 1, 2)) = Len(b))
                /\ result' = NoResult

\* Message::read_args on bytes that arrive from outside.
BeginRead ==
    /\ pc = "idle"
    /\ \E b \in Inputs :
        /\ ReadHeader(b)
        /\ written' = NoWrite
    /\ UNCHANGED << templates, storageVars, codecVars, threadVars >>

\* Variant for C16: only the ids below the template sets' are refused.
RecordsKindFrom4(set_id) ==
    IF set_id = 2 THEN "Template"
    ELSE IF set_id = 3 THEN "OptionsTemplate"
    ELSE IF set_id > 3 THEN "Data"
    ELSE "Reserved"

\* Which Records variant the pre_asserts select for a set id.
RecordsKind(set_id) ==
    IF set_id = 2 THEN "Template"
    ELSE IF set_id = 3 THEN "OptionsTemplate"
    ELSE IF set_id > ReservedIdMax THEN "Data"
    ELSE "Reserved"

\* One turn of until_eof over Vec<Set>, up to the set's records: set_id,
\* length, the assert on length, and the choice of the Records variant.
ReadSetHeader ==
    /\ pc = "sets"
    /\ LET sid == ReadInt(input, pos, Len(input), 2)
           len == ReadInt(input, pos + 2, Len(input), 2)
       IN  IF ~sid.ok \/ ~len.ok
           THEN /\ pc' = "done"
                /\ result' = ReadOk(Message(header.export_time, header.sequence_number,
                                            header.observation_domain_id, sets))
                /\ canon' = (canon /\ pos = Len(input))
                /\ UNCHANGED cur
           ELSE IF ~(FromBE(len.val) > 4)
           THEN /\ pc' = "failed"
                /\ result' = ReadErr("ShortSet", FromBE(sid.val))
                /\ UNCHANGED << cur, canon >>
           ELSE IF RecordsKind(FromBE(sid.val)) = "Reserved"
           THEN /\ pc' = "failed"
                /\ result' = ReadErr("ReservedSetId", FromBE(sid.val))
                /\ UNCHANGED << cur, canon >>
           ELSE /\ pc' = "records"
                /\ cur' = [kind |-> RecordsKind(FromBE(sid.val)),
                           set_id |-> FromBE(sid.val),
                           start |-> pos,
                           length |-> FromBE(len.val),
                           limit |-> Min(pos + FromBE(len.val), Len(input)),
                           records |-> <<>>]
                /\ pos' = pos + SetHeaderSize
                /\ UNCHANGED << result, canon >>
    /\ IF pc' = "records" THEN TRUE ELSE pos' = pos
    /\ UNCHANGED << templates, input, header, sets, written, store0, used, lengths, borrowed_io,
                    storageVars, codecVars, threadVars >>

\* One record from the length-limited reader of until_limit.
ReadOne ==
    IF cur.kind = "Template" THEN ReadTemplateRecord(input, pos, cur.limit)
    ELSE IF cur.kind = "OptionsTemplate" THEN ReadOptionsTemplateRecord(input, pos, cur.limit)
    ELSE ReadDataRecord(input, pos, cur.limit, cur.set_id, templates, Formatter)

\* Variant for C6: the records of a completed template set are held back.
InstallNothing(store, kind, records) == store

\* Variant for C30: completing a data set empties the store.
InstallOrForget(store, kind, records) ==
    IF kind = "Template" THEN insert_template_records(store, records)
    ELSE IF kind = "Data" THEN <<>>
    ELSE store

\* What completing a set of the given kind does to the store (the map =
\* closure of Records::Template; the other variants have none).
InstallOnRead(store, kind, records) ==
    IF kind = "Template" THEN insert_template_records(store, records) ELSE store

\* Ghost: the turn reads a whole data record. DataRecord::read_options
\* borrows the store first and reads every field with the borrow alive.
BorrowedRead ==
    /\ cur.kind = "Data"
    /\ cur.set_id \in DOMAIN templates
    /\ ReadOne.ok
    /\ ReadOne.pos > pos

\* One turn of until_eof inside a set.  A record that reads is pushed; an
\* end-of-file error ends the set, which installs a template set's records
\* and hands the set to the message; any other error fails the whole read.
ReadRecord ==
    /\ pc = "records"
    /\ Len(cur.records) < MaxRecords
    /\ LET r == ReadOne
       IN  IF r.ok
           THEN /\ cur' = [cur EXCEPT !.records = Append(@, r.val)]
                /\ pos' = r.pos
                /\ canon' = (canon /\ r.canon)
                /\ UNCHANGED << pc, templates, sets, used, lengths, result >>
           ELSE IF r.err = "eof"
           THEN /\ pc' = "sets"
                /\ pos' = r.pos
                /\ templates' = InstallOnRead(templates, cur.kind, cur.records)
                /\ sets' = Append(sets, Set(cur.kind, cur.set_id, cur.records))
                /\ used' = Append(used, IF cur.kind = "Data" /\ cur.set_id \in DOMAIN templates
                                         THEN templates[cur.set_id] ELSE <<>>)
                /\ lengths' = Append(lengths, cur.length)
                /\ canon' = (canon /\ r.pos = cur.start + cur.length)
                /\ cur' = NoCur
                /\ UNCHANGED result
           ELSE /\ pc' = "failed"
                /\ result' = ReadErr(r.err, cur.set_id)
                /\ UNCHANGED << pos, cur, templates, sets, used, lengths, canon >>
    /\ borrowed_io' = (borrowed_io \/ BorrowedRead)
    /\ UNCHANGED << input, header, written, store0, storageVars, codecVars, threadVars >>

\* Message::write_args of the message just read, with the store as it is now.
WriteBack ==
    /\ pc = "done"
    /\ ~written.done
    /\ written' = [done |-> TRUE, msg |-> result.msg,
                   res |-> WriteMessage(result.msg, templates, Formatter)]
    /\ UNCHANGED << templates, readerVars, storageVars, codecVars, threadVars >>

\* The caller drops the reader and what the read returned; the store, shared
\* by reference, lives on for the next message.
Release ==
    /\ pc \in {"done", "failed", "wrote"}
    /\ pc' = "idle"
    /\ input' = <<>>
    /\ pos' = 0
    /\ header' = NoHeader
    /\ cur' = NoCur
    /\ sets' = <<>>
    /\ result' = NoResult
    /\ written' = NoWrite
    /\ store0' = templates
    /\ used' = <<>>
    /\ canon' = TRUE
    /\ lengths' = <<>>
    /\ borrowed_io' = FALSE
    /\ UNCHANGED << templates, storageVars, codecVars, threadVars >>

\* ------------------------------------------------- writing built messages
FA == FieldSpec(NoneU32, 4, 1)

FV == FieldSpec(NoneU32, 999, U16MAX)

FB == FieldSpec(SomeU32(1), 1, 1)

OneValue(key, value) == DataRecord(key :> value)

\* Sets a caller can build from the public types.
BuiltSets ==
    << Set("Data", 256, << OneValue(KeyStr("protocolIdentifier"), Val("U8", << 7 >>, FALSE)) >>),
       Set("Data", 256, << OneValue(KeyStr("protocolIdentifier"), Val("U32", << 0, 0, 0, 7 >>, FALSE)) >>),
       Set("Data", 256, << OneValue(KeyStr("protocolIdentifier"), Val("Bytes", << 1, 2, 3 >>, FALSE)) >>),
       Set("Data", 256, << OneValue(KeyUnrecognized(FV), Val("Bytes", << 7, 8 >>, FALSE)) >>),
       Set("Data", 256, << OneValue(KeyUnrecognized(FV), Val("U8", << 7 >>, FALSE)) >>),
       Set("Data", 256, << OneValue(KeyStr("flag"), Val("Bool", <<>>, TRUE)) >>),
       Set("Data", 256, <<>>),
       Set("Data", 257, << OneValue(KeyStr("protocolIdentifier"), Val("U8", << 7 >>, FALSE)) >>),
       Set("Template", 2, << TemplateRecord(256, << FA, FB >>) >>),
       Set("OptionsTemplate", 3, << OptionsTemplateRecord(257, 1, << FV >>) >>) >>

BuiltMessages ==
    { Message(1, 2, 3, [i \in DOMAIN c |-> BuiltSets[c[i]]]) :
          c \in UNION { [1..k -> 1..Len(BuiltSets)] : k \in 1..MaxSets } }

\* Message::write_args of a message the caller built, with the store as it is.
WriteBuilt ==
    /\ pc = "idle"
    /\ ~written.done
    /\ \E m \in BuiltMessages :
        written' = [done |-> TRUE, msg |-> m, res |-> WriteMessage(m, templates, Formatter)]
    /\ pc' = "wrote"
    /\ UNCHANGED << templates, input, pos, header, cur, sets, result, store0, used, canon,
                    lengths, borrowed_io, storageVars, codecVars, threadVars >>

Next == BeginRead \/ ReadSetHeader \/ ReadRecord \/ WriteBack \/ WriteBuilt \/ Release

Spec == Init /\ [][Next]_vars

\* ------------------------------------------------------- write, then read
\* Stores a caller can hand to the writer: Templates is a public map.
WriteStores ==
    { <<>>, 256 :> << FA >>, 256 :> << FV >>, 256 :> << FA, FB >>,
      (256 :> << FB >>) @@ (257 :> << FA >>) }

\* Message::write_args of a message the caller built, with a store the
\* caller filled.
WriteWith ==
    /\ pc = "idle"
    /\ ~written.done
    /\ \E store \in WriteStores, m \in BuiltMessages :
        /\ templates' = store
        /\ store0' = store
        /\ written' = [done |-> TRUE, msg |-> m, res |-> WriteMessage(m, store, Formatter)]
    /\ pc' = "wrote"
    /\ UNCHANGED << input, pos, header, cur, sets, result, used, canon, lengths, borrowed_io,
                    storageVars, codecVars, threadVars >>

\* Message::read_args on the bytes the writer has just emitted, with the
\* same store.
ReadWritten ==
    /\ pc = "wrote"
    /\ written.res.ok
    /\ ReadHeader(written.res.val)
    /\ UNCHANGED << templates, written, storageVars, codecVars, threadVars >>

NextWriteRead == WriteWith \/ ReadWritten \/ ReadSetHeader \/ ReadRecord

SpecWriteRead == Init /\ [][NextWriteRead]_vars

\* ------------------------------------------------------- TemplateStorage
ExpandedFieldSpecifier(name, ty, ent, id, len) ==
    [name |-> name, ty |-> ty, enterprise_number |-> ent,
     information_element_identifier |-> id, field_length |-> len]

from_field_spec(field_spec, formatter) ==
    LET at == << unwrap_or(field_spec.enterprise_number, 0),
                 field_spec.information_element_identifier >>
        name == IF at \in DOMAIN formatter THEN KeyStr(formatter[at].name)
                ELSE KeyUnrecognized(field_spec)
        ty == IF at \in DOMAIN formatter THEN formatter[at].ty ELSE "Bytes"
    IN  ExpandedFieldSpecifier(name, ty, field_spec.enterprise_number,
                               field_spec.information_element_identifier,
                               field_spec.field_length)

Template(kind, fields) == [kind |-> kind, fields |-> fields]

\* The map over field_specifiers in both insert_*_records methods.
Expanded(kind, field_specifiers, formatter) ==
    Template(kind, [i \in 1..Len(field_specifiers) |->
                        from_field_spec(field_specifiers[i], formatter)])

get_template(store, template_id) ==
    IF template_id \in DOMAIN store
    THEN [called |-> TRUE, id |-> template_id, some |-> TRUE, template |-> store[template_id]]
    ELSE [called |-> TRUE, id |-> template_id, some |-> FALSE, template |-> <<>>]

\* Variant for C7: an id that already has a template keeps it.
insert_template_absent(store, template_id, template) ==
    IF template_id \in DOMAIN store THEN store ELSE MapInsert(store, template_id, template)

insert_template(store, template_id, template) == MapInsert(store, template_id, template)

\* The provided methods insert_template_records and
\* insert_options_template_records of the trait: expand, then insert_template,
\* record by record.
RECURSIVE insert_records(_, _, _, _)
insert_records(store, kind, template_records, formatter) ==
    IF template_records = <<>> THEN store
    ELSE insert_records(
             insert_template(store, Head(template_records).template_id,
                             Expanded(kind, Head(template_records).field_specifiers, formatter)),
             kind, Tail(template_records), formatter)

\* Caller-built records: ids on both sides of the reserved range's end.
StoreIds == {ReservedIdMax, ReservedIdMax + 1}

StoreFormatters == {DefaultFormatter, Formatter}

BuiltTemplateRecords == { TemplateRecord(id, fs) : id \in StoreIds, fs \in {<< FA >>, << FB >>} }

BuiltOptionsTemplateRecords ==
    { OptionsTemplateRecord(id, 1, fs) : id \in StoreIds, fs \in {<< FA >>, << FB >>} }

Slices(S) == UNION { [1..k -> S] : k \in 1..MaxSlice }

\* Ghost: the template of the last record of a slice that names id.
LastOf(kind, records, formatter, id) ==
    LET at == CHOOSE i \in DOMAIN records :
                  /\ records[i].template_id = id
                  /\ \A j \in DOMAIN records : records[j].template_id = id => j <= i
    IN  Expanded(kind, records[at].field_specifiers, formatter)

\* Ghost: per id, the template most recently handed over and whether that
\* hand-over met a different template already filed under the id.
Handed(id, template) ==
    [template |-> template,
     replaced |-> (id \in DOMAIN latest /\ latest[id].template # template)]

LatestAfter(kind, records, formatter) ==
    LET ids == { records[i].template_id : i \in DOMAIN records }
    IN  [id \in DOMAIN latest \cup ids |->
            IF id \in ids THEN Handed(id, LastOf(kind, records, formatter, id))
            ELSE latest[id]]

GetTemplate ==
    /\ \E id \in StoreIds : got' = get_template(storage, id)
    /\ UNCHANGED << storage, latest, messageVars, codecVars, threadVars >>

InstallTemplates ==
    /\ \E records \in Slices(BuiltTemplateRecords), formatter \in StoreFormatters :
        /\ storage' = insert_records(storage, "Template", records, formatter)
        /\ latest' = LatestAfter("Template", records, formatter)
    /\ UNCHANGED << got, messageVars, codecVars, threadVars >>

InstallOptionsTemplates ==
    /\ \E records \in Slices(BuiltOptionsTemplateRecords), formatter \in StoreFormatters :
        /\ storage' = insert_records(storage, "OptionsTemplate", records, formatter)
        /\ latest' = LatestAfter("OptionsTemplate", records, formatter)
    /\ UNCHANGED << got, messageVars, codecVars, threadVars >>

InsertTemplate ==
    /\ \E id \in StoreIds, kind \in {"Template", "OptionsTemplate"}, fs \in {<< FA >>, << FB >>} :
        /\ storage' = insert_template(storage, id, Expanded(kind, fs, Formatter))
        /\ latest' = [i \in DOMAIN latest \cup {id} |->
                         IF i = id THEN Handed(id, Expanded(kind, fs, Formatter))
                         ELSE latest[i]]
    /\ UNCHANGED << got, messageVars, codecVars, threadVars >>

NextStore == GetTemplate \/ InstallTemplates \/ InstallOptionsTemplates \/ InsertTemplate

SpecStore == Init /\ [][NextStore]_vars

\* ------------------------------------------------- single codec calls
\* The codec functions keep no state of their own: each behaviour makes one
\* call, on arguments drawn from the sets below.
\* Field specifiers a caller can build: information_element_identifier is a
\* public u16, enterprise_number a public Option<u32>.
ProbeIds == {0, 4, 32767, 32768, 32772, 65535}

ProbeSpecifiers ==
    { FieldSpec(ent, id, len) :
          ent \in {NoneU32, SomeU32(1), SomeU32(30351)}, id \in ProbeIds, len \in {1, U16MAX} }

\* Field specifiers as they arrive: any raw identifier, the field length, and
\* four more bytes that are the enterprise number or whatever follows.
ProbeSpecifierBytes ==
    { BE16(raw) \o BE16(len) \o rest :
          raw \in ProbeIds, len \in {1, U16MAX},
          rest \in {<<>>, << 0, 0 >>, << 0, 0, 0, 1 >>, << 0, 0, 118, 143 >>} }

\* FieldSpecifier written, and what reading those bytes gives back.
WriteSpecifier ==
    /\ probe = NoProbe
    /\ \E spec \in ProbeSpecifiers :
        LET w == WriteFieldSpecifier(spec)
        IN  probe' = [op |-> "write_specifier", spec |-> spec, bytes |-> w.val,
                      back |-> ReadFieldSpecifier(w.val, 0, Len(w.val))]
    /\ UNCHANGED << messageVars, storageVars, threadVars >>

\* FieldSpecifier read from bytes.
ReadSpecifier ==
    /\ probe = NoProbe
    /\ \E b \in ProbeSpecifierBytes :
        probe' = [op |-> "read_specifier", bytes |-> b,
                  res |-> ReadFieldSpecifier(b, 0, Len(b))]
    /\ UNCHANGED << messageVars, storageVars, threadVars >>

\* Payloads for a variable-length slot: every length up to MaxPayload and
\* the two longest ones; byte strings that begin with 255, and ASCII text.
PayloadLengths == (0..MaxPayload) \cup {VarLenMax - 1, VarLenMax}

ProbePayloads ==
    { Val("Bytes", [i \in 1..n |-> (254 + i) % 256], FALSE) : n \in PayloadLengths }
    \cup { Val("String", [i \in 1..n |-> 32 + (i % 95)], FALSE) : n \in PayloadLengths }

VariableSlot == FieldSpec(NoneU32, 999, U16MAX)

\* A Bytes or String value written into a variable-length slot, the size
\* write_size reports for it, and what reading the bytes gives back.
WriteVariable ==
    /\ probe = NoProbe
    /\ \E value \in ProbePayloads :
        LET w == WriteValue(value, VariableSlot.field_length)
        IN  probe' = [op |-> "write_variable", value |-> value, wrote |-> w,
                      size |-> ValueWriteSize(value, VariableSlot),
                      back |-> ReadValue(w.val, 0, Len(w.val), value.variant,
                                         VariableSlot.field_length)]
    /\ UNCHANGED << messageVars, storageVars, threadVars >>

\* Payload lengths past the longest one write_size accepts: the first such,
\* the largest a u16 holds, and the first a u16 does not hold.
OverlongLengths == {VarLenMax + 1, U16MAX, U16MAX + 1}

\* DataRecordValue written on its own into a variable-length slot, with a
\* payload longer than write_size accepts. Kept: whether the write returned
\* Ok, how many bytes it emitted and the first three of them.
WriteOverlong ==
    /\ probe = NoProbe
    /\ \E n \in OverlongLengths, variant \in {"Bytes", "String"} :
        LET value == Val(variant, [i \in 1..n |-> 65], FALSE)
            w == WriteValue(value, VariableSlot.field_length)
        IN  probe' = [op |-> "write_overlong", variant |-> variant, len |-> n,
                      ok |-> w.ok, emitted |-> Len(w.val),
                      prefix |-> SubSeq(w.val, 1, Min(3, Len(w.val))),
                      size |-> ValueWriteSize(value, VariableSlot)]
    /\ UNCHANGED << messageVars, storageVars, threadVars >>

\* The value variants other than Bytes and String.
FixedVariants ==
    {"U8", "U16", "U32", "U64", "I8", "I16", "I32", "I64", "F32", "F64", "Bool",
     "MacAddress", "DateTimeSeconds", "DateTimeMilliseconds", "DateTimeMicroseconds",
     "DateTimeNanoseconds", "Ipv4Addr", "Ipv6Addr"}

\* A value that is neither Bytes nor String written on its own into a
\* variable-length slot, and the size write_size reports for it.
WriteMismatched ==
    /\ probe = NoProbe
    /\ \E variant \in FixedVariants, byte \in {0, 7}, flag \in BOOLEAN :
        LET value == Val(variant, [i \in 1..NaturalWidth(variant) |-> byte], flag)
        IN  probe' = [op |-> "write_mismatched", value |-> value,
                      wrote |-> WriteValue(value, VariableSlot.field_length),
                      size |-> ValueWriteSize(value, VariableSlot)]
    /\ UNCHANGED << messageVars, storageVars, threadVars >>

\* Stores for a data record written on its own: empty, and template 256
\* with one or two field specifiers, one list naming the same element twice.
RecordStores ==
    { <<>> } \cup { 256 :> fs : fs \in {<< FA >>, << FA, FB >>, << FV, FA >>, << FA, FA >>} }

\* Records a caller can build: any choice among four keys, the last one of
\* no template here, the variable-length element with a byte string or with
\* an integer.
RecordMaps ==
    LET keys == {KeyStr("protocolIdentifier"), KeyStr("flag"), KeyUnrecognized(FV),
                 KeyStr("octetDeltaCount")}
        values(key) ==
            IF key = KeyStr("flag") THEN {Val("Bool", <<>>, TRUE)}
            ELSE IF key = KeyUnrecognized(FV)
            THEN {Val("Bytes", << 7, 8 >>, FALSE), Val("U8", << 7 >>, FALSE)}
            ELSE {Val("U8", << 7 >>, FALSE)}
    IN  UNION { { m \in [ks -> UNION { values(k) : k \in ks }] :
                      \A k \in ks : m[k] \in values(k) } : ks \in SUBSET keys }

\* DataRecord::write_options and DataRecord::write_size of one record, for
\* a set id and a store.
WriteRecord ==
    /\ probe = NoProbe
    /\ \E store \in RecordStores, set_id \in {256, 257}, values \in RecordMaps :
        probe' = [op |-> "write_record", store |-> store, set_id |-> set_id,
                  values |-> values,
                  wrote |-> WriteDataRecord(DataRecord(values), set_id, store, Formatter),
                  size |-> DataRecordWriteSize(DataRecord(values), set_id, store, Formatter)]
    /\ UNCHANGED << messageVars, storageVars, threadVars >>

\* A second variable-length element the formatter does not know.
FW == FieldSpec(NoneU32, 998, U16MAX)

\* Payload lengths that fit a variable-length slot one by one; two of the
\* larger ones together do not fit a u16.
LargeLengths == {1, 32000, 40000}

\* How the build treats an overflowing u16 addition: a debug build panics,
\* a release build wraps.
Profiles == {"debug", "release"}

\* Message::write_args of a message with one data record of two byte
\* strings. Kept: the size the message has on the wire, whether the write
\* returned Ok, returned Err or panicked, and the two length fields written.
WriteLarge ==
    /\ probe = NoProbe
    /\ \E n1 \in LargeLengths, n2 \in LargeLengths, profile \in Profiles :
        LET store == 256 :> << FV, FW >>
            rec == DataRecord((KeyUnrecognized(FV) :> Val("Bytes", [i \in 1..n1 |-> 1], FALSE))
                              @@ (KeyUnrecognized(FW) :> Val("Bytes", [i \in 1..n2 |-> 2], FALSE)))
            m == Message(1, 2, 3, << Set("Data", 256, << rec >>) >>)
            exact == HeaderSize + SetHeaderSize
                     + n1 + (IF n1 < VarLenShortLimit THEN 1 ELSE 3)
                     + n2 + (IF n2 < VarLenShortLimit THEN 1 ELSE 3)
            w == WriteMessage(m, store, Formatter)
            panics == profile = "debug" /\ exact > U16MAX
        IN  probe' = [op |-> "write_large", profile |-> profile, exact |-> exact,
                      outcome |-> IF panics THEN "panic" ELSE IF w.ok THEN "ok" ELSE "error",
                      emitted |-> IF panics \/ ~w.ok THEN 0 ELSE Len(w.val),
                      message_length |-> IF panics \/ ~w.ok THEN 0
                                         ELSE FromBE(SubSeq(w.val, 3, 4)),
                      set_length |-> IF panics \/ ~w.ok THEN 0
                                     ELSE FromBE(SubSeq(w.val, 19, 20))]
    /\ UNCHANGED << messageVars, storageVars, threadVars >>

\* The abstract types whose values have a fixed width.
FixedTypes ==
    {"UnsignedInt", "SignedInt", "Float", "Bool", "MacAddress", "DateTimeSeconds",
     "DateTimeMilliseconds", "DateTimeMicroseconds", "DateTimeNanoseconds",
     "Ipv4Addr", "Ipv6Addr"}

ProbeLengths == (0..MaxFixedLen) \cup {U16MAX}

\* Streams of 0..MaxFixedLen bytes, to read a value from.
ProbeStreams == { [i \in 1..n |-> byte] : n \in 0..MaxFixedLen, byte \in {0, 1, 255} }

\* DataRecordValue::read_options for a fixed-width type, from the start of a stream.
ReadFixed ==
    /\ probe = NoProbe
    /\ \E ty \in FixedTypes, length \in ProbeLengths, b \in ProbeStreams :
        probe' = [op |-> "read_fixed", ty |-> ty, length |-> length, bytes |-> b,
                  res |-> ReadValue(b, 0, Len(b), ty, length)]
    /\ UNCHANGED << messageVars, storageVars, threadVars >>

NextCodec == WriteSpecifier \/ ReadSpecifier \/ WriteVariable \/ WriteOverlong
                \/ WriteMismatched \/ WriteRecord \/ WriteLarge \/ ReadFixed

SpecCodec == Init /\ [][NextCodec]_vars

\* ------------------------------------------- two threads, one shared store
\* The template message of the scenario: one template set with the
\* templates 500, 999 and 501.
ThreadTemplates ==
    << TemplateRecord(500, << FA >>), TemplateRecord(999, << FB >>),
       TemplateRecord(501, << FV >>) >>

\* The data message of the scenario: data sets for the templates 999, 500, 999.
DataSetIds == << 999, 500, 999 >>

\* The template ids the data thread asks the store for: one call per data
\* record, DataRecordsPerSet records in each set.
DataRecordIds ==
    [i \in 1..(Len(DataSetIds) * DataRecordsPerSet) |->
        DataSetIds[((i - 1) \div DataRecordsPerSet) + 1]]

\* What a thread still has to take to the store.
ThreadWork(t) == IF t = "templates" THEN ThreadTemplates ELSE DataRecordIds

\* RwLock::read returns once no writer holds the lock, RwLock::write once
\* nobody holds it.
CanRead(l) == l.writer = ""

CanWrite(l) == l.writer = "" /\ l.readers = {}

rwlock_read(l, t) == [l EXCEPT !.readers = @ \cup {t}]

rwlock_write(l, t) == [l EXCEPT !.writer = t]

\* The guard of get_template is a temporary: it goes at the end of the call.
drop_read_guard(l, t) == [l EXCEPT !.readers = @ \ {t}]

\* Variant for C18: install returns with its guard still alive.
drop_write_guard_leak(l, t) == l

\* The guard of insert_template is a temporary: it goes at the end of the call.
drop_write_guard(l, t) == [l EXCEPT !.writer = ""]

\* A thread reads from its own bytes: the message header and the next set or
\* record, or the end of the stream. No store call is open meanwhile.
ThreadIo(t) ==
    /\ thread[t].at = "io"
    /\ thread' = [thread EXCEPT ![t].at =
                      IF thread[t].next > Len(ThreadWork(t)) THEN "done" ELSE "lock"]
    /\ UNCHANGED << shared, lock, messageVars, storageVars, codecVars >>

\* insert_template, self.write(): the template thread waits for the lock alone.
LockWrite(t) ==
    /\ t = "templates"
    /\ thread[t].at = "lock"
    /\ CanWrite(lock)
    /\ lock' = rwlock_write(lock, t)
    /\ thread' = [thread EXCEPT ![t].at = "held"]
    /\ UNCHANGED << shared, messageVars, storageVars, codecVars >>

\* insert_template, .insert(template_id, template) under the write guard.
InsertHeld(t) ==
    /\ t = "templates"
    /\ thread[t].at = "held"
    /\ LET record == ThreadTemplates[thread[t].next]
       IN  shared' = insert_template(shared, record.template_id,
                                     Expanded("Template", record.field_specifiers, Formatter))
    /\ thread' = [thread EXCEPT ![t].at = "drop"]
    /\ UNCHANGED << lock, messageVars, storageVars, codecVars >>

\* insert_template returns; insert_template_records goes on to its next record.
DropWrite(t) ==
    /\ t = "templates"
    /\ thread[t].at = "drop"
    /\ lock' = drop_write_guard(lock, t)
    /\ thread' = [thread EXCEPT ![t].next = @ + 1,
                                ![t].at = IF thread[t].next < Len(ThreadTemplates)
                                          THEN "lock" ELSE "io"]
    /\ UNCHANGED << shared, messageVars, storageVars, codecVars >>

\* get_template, self.read(): the data thread waits for the writer to be gone.
LockRead(t) ==
    /\ t = "data"
    /\ thread[t].at = "lock"
    /\ CanRead(lock)
    /\ lock' = rwlock_read(lock, t)
    /\ thread' = [thread EXCEPT ![t].at = "held"]
    /\ UNCHANGED << shared, messageVars, storageVars, codecVars >>

\* get_template, .get(&template_id).cloned() under the read guard.
GetHeld(t) ==
    /\ t = "data"
    /\ thread[t].at = "held"
    /\ LET res == get_template(shared, DataRecordIds[thread[t].next])
       IN  thread' = [thread EXCEPT
                         ![t].at = "drop",
                         ![t].err = IF res.some THEN "" ELSE "MissingTemplate",
                         ![t].early = @ \/ thread["templates"].at # "done"]
    /\ UNCHANGED << shared, lock, messageVars, storageVars, codecVars >>

\* get_template returns: with a template the thread goes on to read the
\* record's fields, without one its parse ends in the missing-template error.
DropRead(t) ==
    /\ t = "data"
    /\ thread[t].at = "drop"
    /\ lock' = drop_read_guard(lock, t)
    /\ thread' = [thread EXCEPT ![t].next = @ + 1,
                                ![t].at = IF thread[t].err = "" THEN "io" ELSE "failed"]
    /\ UNCHANGED << shared, messageVars, storageVars, codecVars >>

ThreadStep(t) ==
    \/ ThreadIo(t)
    \/ LockWrite(t) \/ InsertHeld(t) \/ DropWrite(t)
    \/ LockRead(t) \/ GetHeld(t) \/ DropRead(t)

NextThreads == \E t \in Threads : ThreadStep(t)

SpecThreads == Init /\ [][NextThreads]_vars

\* Both threads are spawned and joined: a thread that can take a step is
\* scheduled in the end.
FairThreads == SpecThreads /\ \A t \in Threads : WF_vars(ThreadStep(t))

\* ------------------------------------------------------------ properties
\* History helpers over the sets the current read has completed.
TemplateSetDefines(s, i) ==
    /\ s.kind = "Template"
    /\ \E r \in DOMAIN s.records : s.records[r].template_id = i

\* Some template set among the first k - 1 completed sets defines i.
DefinedBefore(k, i) == \E j \in 1..(k - 1) : TemplateSetDefines(sets[j], i)

\* The field specifiers of the last record defining i in the last such set.
LastDefinition(k, i) ==
    LET j == CHOOSE j \in 1..(k - 1) :
                 /\ TemplateSetDefines(sets[j], i)
                 /\ \A j2 \in (j + 1)..(k - 1) : ~TemplateSetDefines(sets[j2], i)
        rs == sets[j].records
        r == CHOOSE r \in DOMAIN rs :
                 /\ rs[r].template_id = i
                 /\ \A r2 \in DOMAIN rs : rs[r2].template_id = i => r2 <= r
    IN  rs[r].field_specifiers

KeysOf(template) == { key_and_type(template[f], Formatter).key : f \in DOMAIN template }

\* C1: every accepted message, written back with the store the decode left,
\* yields exactly the bytes that were read.
C1_RoundTrip ==
    (pc = "done" /\ written.done) => (written.res.ok /\ written.res.val = input)

\* C2: the record loop of a set never takes a turn without consuming input,
\* so a read of finite input finishes.
C2_RecordLoopConsumes ==
    [][(pc = "records" /\ pc' = "records") => pos' > pos]_vars

\* C3: within one message a data set of id i that follows a template set
\* defining i is decoded with the latest such definition and never fails for
\* a missing template; a data set of i met before any definition, the store
\* having had no i when the read began, decodes nothing and fails with
\* MissingTemplate.
C3_InstallOrder ==
    /\ \A k \in DOMAIN sets :
        sets[k].kind = "Data" =>
            /\ sets[k].set_id \notin DOMAIN store0 => DefinedBefore(k, sets[k].set_id)
            /\ DefinedBefore(k, sets[k].set_id) =>
                /\ used[k] = LastDefinition(k, sets[k].set_id)
                /\ \A r \in DOMAIN sets[k].records :
                       DOMAIN sets[k].records[r].values
                           = KeysOf(LastDefinition(k, sets[k].set_id))
    /\ (pc \in {"records", "failed"} /\ cur.kind = "Data") =>
        /\ DefinedBefore(Len(sets) + 1, cur.set_id) =>
            /\ cur.set_id \in DOMAIN templates
            /\ templates[cur.set_id] = LastDefinition(Len(sets) + 1, cur.set_id)
            /\ result.err # "MissingTemplate"
        /\ (cur.set_id \notin DOMAIN store0 /\ ~DefinedBefore(Len(sets) + 1, cur.set_id)) =>
            /\ cur.records = <<>>
            /\ pc = "failed" => (~result.ok /\ result.err = "MissingTemplate")

\* C3 witness: a message whose template set defines an id the store lacked,
\* and whose later data set of that id decoded a record.
C3_Witness ==
    \E k \in DOMAIN sets :
        /\ sets[k].kind = "Data"
        /\ sets[k].set_id \notin DOMAIN store0
        /\ DefinedBefore(k, sets[k].set_id)
        /\ sets[k].records # <<>>

\* C4: once an options-template set has been read, the store holds every
\* template id the set declared.
C4_OptionsTemplatesInstalled ==
    \A k \in DOMAIN sets :
        sets[k].kind = "OptionsTemplate" =>
            \A r \in DOMAIN sets[k].records :
                sets[k].records[r].template_id \in DOMAIN templates

\* C5: a data set whose header was accepted and whose id has no template in
\* the store makes the read fail with "Missing template for set id N", N the
\* set's id; no record of the set and no message is returned.
C5_MissingTemplate ==
    [][(pc = "records" /\ cur.kind = "Data" /\ cur.set_id \notin DOMAIN templates) =>
          /\ cur.length > SetHeaderSize
          /\ cur.records = <<>>
          /\ pc' = "failed"
          /\ result' = ReadErr("MissingTemplate", cur.set_id)
          /\ result'.msg = NoMessage
          /\ sets' = sets]_vars

\* C5 witness: a read that failed at a data set whose id the store lacks.
C5_Witness ==
    /\ pc = "failed"
    /\ cur.kind = "Data"
    /\ cur.set_id \notin DOMAIN templates
    /\ result.err = "MissingTemplate"
    /\ result.id = cur.set_id

\* C6: when a read fails, the store still holds every template installed by
\* the template sets completed before the failure, each id with its latest
\* definition.
C6_NoRollback ==
    pc = "failed" =>
        \A k \in DOMAIN sets : \A r \in DOMAIN sets[k].records :
            sets[k].kind = "Template" =>
                /\ sets[k].records[r].template_id \in DOMAIN templates
                /\ templates[sets[k].records[r].template_id]
                       = LastDefinition(Len(sets) + 1, sets[k].records[r].template_id)

\* C6 witness: a failed read that had completed a template set defining an id
\* the store lacked when the read began.
C6_Witness ==
    /\ pc = "failed"
    /\ \E k \in DOMAIN sets : \E r \in DOMAIN sets[k].records :
           /\ sets[k].kind = "Template"
           /\ sets[k].records[r].template_id \notin DOMAIN store0

\* C7: after any hand-over of templates the storage holds, for each id ever
\* handed over, exactly the template handed over last (so handing over what
\* is already stored changes nothing); no id ever becomes absent again; and
\* get_template returns that last template, or nothing for an id never
\* handed over.
C7_LastWriterWins ==
    [][/\ DOMAIN storage' = DOMAIN latest'
       /\ \A id \in DOMAIN storage' : storage'[id] = latest'[id].template
       /\ DOMAIN storage \subseteq DOMAIN storage'
       /\ (\A id \in DOMAIN latest' :
               id \in DOMAIN storage /\ latest'[id].template = storage[id])
              => storage' = storage
       /\ got' # got =>
              /\ got'.some = (got'.id \in DOMAIN latest)
              /\ got'.some => got'.template = latest[got'.id].template]_vars

\* C7 witness: get_template returned the template of an id whose last
\* hand-over replaced a different template.
C7_Witness ==
    /\ got.called
    /\ got.some
    /\ got.id \in DOMAIN latest
    /\ latest[got.id].replaced
    /\ got.template = latest[got.id].template

\* C8: every template id the storage holds is greater than 255, whichever
\* operation filed it.
C8_StoredIdsAbove255 ==
    /\ \A id \in DOMAIN storage : id > ReservedIdMax
    /\ \A id \in DOMAIN templates : id > ReservedIdMax

\* C9: the length field of a written message's header equals the number of
\* bytes the write produced.
C9_HeaderLength ==
    (written.done /\ written.res.ok) =>
        FromBE(SubSeq(written.res.val, 3, 4)) = Len(written.res.val)

\* The bytes the records of the k-th written set occupy, and where the set
\* starts in the output.
WrittenSetExtent(k) ==
    SetHeaderSize + Len(WriteRecords(written.msg.sets[k], templates, Formatter).val)

RECURSIVE WrittenSetStart(_)
WrittenSetStart(k) ==
    IF k = 1 THEN HeaderSize ELSE WrittenSetStart(k - 1) + WrittenSetExtent(k - 1)

\* C10: the length slot of every written set holds 4 plus the bytes of the
\* set's records as written (this writer appends no padding).
C10_SetLength ==
    (written.done /\ written.res.ok) =>
        \A k \in DOMAIN written.msg.sets :
            FromBE(SubSeq(written.res.val, WrittenSetStart(k) + 3, WrittenSetStart(k) + 4))
                = WrittenSetExtent(k)

\* The alignments callers ask for.
Alignments == {1, 4, 8}

\* C11: whichever alignment a of 1, 4, 8 the caller asks for, every set of a
\* written message ends at an offset from the start of the message that is a
\* multiple of a.
C11_SetsEndAligned ==
    (written.done /\ written.res.ok) =>
        \A a \in Alignments : \A k \in DOMAIN written.msg.sets :
            (WrittenSetStart(k) + WrittenSetExtent(k)) % a = 0

\* C12: a set whose declared length lies within the input and covers its
\* records and then padding is read without error, and its completion leaves
\* the reader at set start + length, where the next set begins.
C12_PaddingConsumed ==
    [][(pc = "records" /\ pc' = "sets" /\ cur.start + cur.length <= Len(input)) =>
          pos' = cur.start + cur.length]_vars

\* C13: a field specifier read has enterprise_number exactly when bit 15 of
\* the raw identifier is set, and an identifier below 0x8000; a field
\* specifier written, whatever its identifier, has bit 15 of the raw
\* identifier set exactly when enterprise_number is present, and the 4-byte
\* enterprise number follows exactly then.
C13_EnterpriseBit ==
    /\ probe.op = "read_specifier" /\ probe.res.ok =>
        /\ probe.res.val.enterprise_number.some = (probe.bytes[1] >= 128)
        /\ probe.res.val.information_element_identifier < 32768
    /\ probe.op = "write_specifier" =>
        /\ (probe.bytes[1] >= 128) = probe.spec.enterprise_number.some
        /\ Len(probe.bytes) = (IF probe.spec.enterprise_number.some THEN 8 ELSE 4)
        /\ probe.spec.enterprise_number.some =>
               SubSeq(probe.bytes, 5, 8) = BE32(probe.spec.enterprise_number.v)

\* C14: a Bytes or String payload of length L <= 65532 written into a slot
\* of field_length 0xFFFF comes out as the 1-byte prefix L when L < 255 and
\* as 0xFF, u16 L otherwise, followed by the payload; write_size reports
\* the number of bytes written, L + 1 respectively L + 3; and reading the
\* bytes with field_length 0xFFFF gives the payload back and consumes them all.
C14_VariableLengthLaw ==
    probe.op = "write_variable" =>
        LET L == Len(probe.value.bytes)
        IN  /\ probe.wrote.ok
            /\ probe.size.ok
            /\ L < 255 =>
                /\ probe.wrote.val = << L >> \o probe.value.bytes
                /\ probe.size.val = L + 1
            /\ L >= 255 =>
                /\ probe.wrote.val = << 255, L \div 256, L % 256 >> \o probe.value.bytes
                /\ probe.size.val = L + 3
            /\ probe.size.val = Len(probe.wrote.val)
            /\ probe.back.ok
            /\ probe.back.val = probe.value
            /\ probe.back.pos = Len(probe.wrote.val)

\* C14 witness: the shortest payload that needs the long form went out with
\* the 3-byte prefix and came back.
C14_Witness ==
    /\ probe.op = "write_variable"
    /\ Len(probe.value.bytes) = VarLenShortLimit
    /\ probe.wrote.val[1] = 255
    /\ probe.back.ok
    /\ probe.back.val = probe.value

\* The lengths the claim lists for each fixed-width type.
ListedLengths(ty) ==
    CASE ty \in {"UnsignedInt", "SignedInt"} -> {1, 2, 4, 8}
      [] ty = "Float" -> {4, 8}
      [] ty = "Bool" -> {1}
      [] ty = "MacAddress" -> {6}
      [] ty \in {"DateTimeSeconds", "Ipv4Addr"} -> {4}
      [] ty = "Ipv6Addr" -> {16}
      [] OTHER -> {8}

\* C15: a value of a type other than Bytes and String is read only at the
\* lengths listed for its type, and the read then consumes exactly
\* field_length bytes (and succeeds whenever that many bytes are there);
\* every other (type, length) pair, 0xFFFF included, fails with the invalid
\* type/length error and consumes nothing.
C15_TypeLengthStrict ==
    probe.op = "read_fixed" =>
        /\ probe.res.ok =>
            /\ probe.length \in ListedLengths(probe.ty)
            /\ probe.res.pos = probe.length
        /\ (probe.length \in ListedLengths(probe.ty) /\ Len(probe.bytes) >= probe.length)
               => probe.res.ok
        /\ probe.length \notin ListedLengths(probe.ty) =>
            /\ ~probe.res.ok
            /\ probe.res.err = "TypeLength"
            /\ probe.res.pos = 0

\* C15 witness: an Ipv6Addr of field_length 16 was read and took 16 bytes.
C15_Witness ==
    /\ probe.op = "read_fixed"
    /\ probe.ty = "Ipv6Addr"
    /\ probe.length = 16
    /\ probe.res.ok
    /\ probe.res.pos = 16

\* The set id in the set header the reader is about to read.
NextSetId == FromBE(SubSeq(input, pos + 1, pos + 2))

NextSetLength == FromBE(SubSeq(input, pos + 3, pos + 4))

\* C16: a set whose header is read selects template records exactly for
\* set_id 2, options-template records exactly for set_id 3 and data records
\* exactly for set_id > 255; for a set_id of 0, 1 or 4..255 the read fails
\* and the store is left as it was.
C16_SetIdDispatch ==
    [][(pc = "sets" /\ pos + SetHeaderSize <= Len(input)) =>
          /\ (NextSetId < 2 \/ (NextSetId > 3 /\ NextSetId <= 255)) =>
                /\ pc' = "failed"
                /\ ~result'.ok
                /\ result'.msg = NoMessage
                /\ templates' = templates
          /\ pc' = "records" =>
                /\ cur'.kind = "Template" <=> NextSetId = 2
                /\ cur'.kind = "OptionsTemplate" <=> NextSetId = 3
                /\ cur'.kind = "Data" <=> NextSetId > 255
                /\ cur'.kind \in {"Template", "OptionsTemplate", "Data"}
                /\ cur'.set_id = NextSetId
          /\ ((NextSetId \in {2, 3} \/ NextSetId > 255) /\ NextSetLength > SetHeaderSize) =>
                pc' = "records"]_vars

\* C16 witness: a read that failed at a set with a reserved id, after a
\* template set of the same message had been read.
C16_Witness ==
    /\ pc = "failed"
    /\ result.err = "ReservedSetId"
    /\ (result.id < 2 \/ (result.id > 3 /\ result.id <= 255))
    /\ sets # <<>>

\* The value variants an abstract type of the formatter decodes to.
VariantsOf(ty) ==
    CASE ty = "UnsignedInt" -> {"U8", "U16", "U32", "U64"}
      [] ty = "SignedInt" -> {"I8", "I16", "I32", "I64"}
      [] ty = "Float" -> {"F32", "F64"}
      [] OTHER -> {ty}

\* What C17 says of one decoded record and one field specifier of its template.
FallbackHolds(rec, f) ==
    LET at == << IF f.enterprise_number.some THEN f.enterprise_number.v ELSE 0,
                 f.information_element_identifier >>
        unrecognized == [k |-> "Unrecognized", name |-> "", spec |-> f]
    IN  IF at \notin DOMAIN Formatter
        THEN /\ unrecognized \in DOMAIN rec.values
             /\ rec.values[unrecognized].variant = "Bytes"
             /\ f.field_length # U16MAX =>
                    Len(rec.values[unrecognized].bytes) = f.field_length
        ELSE LET named == [k |-> "Str", name |-> Formatter[at].name, spec |-> NoSpec]
             IN  /\ named \in DOMAIN rec.values
                 /\ rec.values[named].variant \in VariantsOf(Formatter[at].ty)
                 /\ unrecognized \notin DOMAIN rec.values

\* C17: in every decoded data record, a field whose (enterprise number or 0,
\* identifier) the formatter lacks is held under Unrecognized(field
\* specifier) as Bytes, field_length of them when the length is fixed; a
\* field the formatter knows is held under the formatter's name with a value
\* of the formatter's type.
C17_UnknownElementFallback ==
    /\ \A k \in DOMAIN sets :
        sets[k].kind = "Data" =>
            \A r \in DOMAIN sets[k].records : \A f \in DOMAIN used[k] :
                FallbackHolds(sets[k].records[r], used[k][f])
    /\ (pc = "records" /\ cur.kind = "Data" /\ cur.set_id \in DOMAIN templates) =>
            \A r \in DOMAIN cur.records : \A f \in DOMAIN templates[cur.set_id] :
                FallbackHolds(cur.records[r], templates[cur.set_id][f])

\* C17 witness: a decoded record holds a fixed-length value under
\* Unrecognized for a field whose identifier the formatter knows only
\* without the enterprise number.
C17_Witness ==
    \E k \in DOMAIN sets : \E r \in DOMAIN sets[k].records : \E f \in DOMAIN used[k] :
        /\ sets[k].kind = "Data"
        /\ used[k][f].enterprise_number.some
        /\ << 0, used[k][f].information_element_identifier >> \in DOMAIN Formatter
        /\ [k |-> "Unrecognized", name |-> "", spec |-> used[k][f]]
               \in DOMAIN sets[k].records[r].values

\* A thread's parse has returned, with a message or with an error.
Terminated(t) == thread[t].at \in {"done", "failed"}

\* C18: with the template thread and the data thread on one shared store,
\* under every interleaving both threads terminate, the data thread with a
\* message or with the missing-template error; as long as one of them has not,
\* some thread can take a step; and once both have, the store holds exactly
\* the templates 500, 999 and 501 of the template message.
C18_ConcurrentInstallation ==
    /\ <>(\A t \in Threads : Terminated(t))
    /\ []((\E t \in Threads : ~Terminated(t)) => ENABLED NextThreads)
    /\ [](thread["templates"].at # "failed")
    /\ [](thread["data"].at = "failed" => thread["data"].err = "MissingTemplate")
    /\ []((\A t \in Threads : Terminated(t)) =>
             /\ DOMAIN shared = {500, 999, 501}
             /\ shared[500] = Expanded("Template", << FA >>, Formatter)
             /\ shared[999] = Expanded("Template", << FB >>, Formatter)
             /\ shared[501] = Expanded("Template", << FV >>, Formatter))

\* C18 witness: both threads have terminated, the data thread with a
\* message, having asked the store while the template thread was still at work.
C18_Witness ==
    /\ thread["templates"].at = "done"
    /\ thread["data"].at = "done"
    /\ thread["data"].early
    /\ DOMAIN shared = {500, 999, 501}

\* C19: no store lock and no borrow of the store is alive while bytes are
\* read from the stream: a store call returns before the stream is touched.
C19_NoBorrowAcrossIo == ~borrowed_io

\* C20: a read returns a message only when the stream held all the bytes the
\* message header declares: a stream that ends before that, in the middle of
\* a set or of a record, makes the read fail.
C20_TruncatedFails == pc = "done" => header.length <= Len(input)

RECURSIVE SumOf(_)
SumOf(ns) == IF ns = <<>> THEN 0 ELSE Head(ns) + SumOf(Tail(ns))

\* C21: for every message the reader accepts, the length field of the message
\* header equals 16 plus the sum of the length fields of the sets returned.
C21_LengthMatchesSets == pc = "done" => header.length = HeaderSize + SumOf(lengths)

\* C22: writing a Bytes or String value of more than 65532 bytes into a slot
\* of field_length 0xFFFF fails with an error.
C22_OverlongFails == probe.op = "write_overlong" => ~probe.ok

\* C23: writing a value that is neither Bytes nor String into a slot of
\* field_length 0xFFFF fails with an error, whatever the variant, and emits
\* no bytes of the value.
C23_MismatchedFails ==
    probe.op = "write_mismatched" => (~probe.wrote.ok /\ probe.wrote.val = <<>>)

\* The key a record must hold for a field specifier: the formatter's name
\* for the element, or the field specifier itself when the formatter has none.
ResolvedKey(f) ==
    LET at == << IF f.enterprise_number.some THEN f.enterprise_number.v ELSE 0,
                 f.information_element_identifier >>
    IN  IF at \in DOMAIN Formatter
        THEN [k |-> "Str", name |-> Formatter[at].name, spec |-> NoSpec]
        ELSE [k |-> "Unrecognized", name |-> "", spec |-> f]

\* The field specifiers of the probed template the probed record has no value for.
Lacking ==
    { i \in DOMAIN probe.store[probe.set_id] :
          ResolvedKey(probe.store[probe.set_id][i]) \notin DOMAIN probe.values }

\* An earlier field specifier with variable length whose value in the record
\* is neither Bytes nor String: write_size rejects it before it gets to i.
RejectedBefore(i) ==
    \E j \in 1..(i - 1) :
        LET f == probe.store[probe.set_id][j]
        IN  /\ ResolvedKey(f) \in DOMAIN probe.values
            /\ f.field_length = U16MAX
            /\ probe.values[ResolvedKey(f)].variant \notin {"Bytes", "String"}

CutAtSetEnd == SubSeq(input, 1, Min(cur.start + cur.length, Len(input)))

\* The next record of the set being read, read from a stream that holds
\* nothing after the set.
ReadFromCut ==
    IF cur.kind = "Template"
    THEN ReadTemplateRecord(CutAtSetEnd, pos, Len(CutAtSetEnd))
    ELSE IF cur.kind = "OptionsTemplate"
    THEN ReadOptionsTemplateRecord(CutAtSetEnd, pos, Len(CutAtSetEnd))
    ELSE ReadDataRecord(CutAtSetEnd, pos, Len(CutAtSetEnd), cur.set_id, templates, Formatter)

\* C25: while the records of a set of declared length n are read, the reader
\* never gets past set start + n, and every record the set is given is the
\* record a stream ending at set start + n yields: no byte of what follows
\* the set becomes part of its records, whatever an inner length claims.
C25_InnerLengthsContained ==
    [][pc = "records" =>
          /\ pos' <= cur.start + cur.length
          /\ pc' = "records" =>
                /\ ReadFromCut.ok
                /\ cur'.records = Append(cur.records, ReadFromCut.val)
                /\ pos' = ReadFromCut.pos
          /\ pc' = "sets" =>
                /\ ~ReadFromCut.ok
                /\ sets' = Append(sets, Set(cur.kind, cur.set_id, cur.records))]_vars

\* C25 witness: a data set of a template that begins with a variable-length
\* field held payload bytes but returned no record, its length prefix having
\* claimed more than the set holds, and the set after it was read.
C25_Witness ==
    \E k \in DOMAIN sets :
        /\ sets[k].kind = "Data"
        /\ sets[k].records = <<>>
        /\ lengths[k] > SetHeaderSize + 1
        /\ used[k] # <<>>
        /\ used[k][1].field_length = U16MAX
        /\ k < Len(sets)

\* C26: when a record of a template set fails to parse, the template records
\* of that set parsed before it are in the store.
C26_InstalledAsParsed ==
    (pc = "failed" /\ cur.kind = "Template") =>
        \A r \in DOMAIN cur.records :
            /\ cur.records[r].template_id \in DOMAIN templates
            /\ \E q \in r..Len(cur.records) :
                /\ cur.records[q].template_id = cur.records[r].template_id
                /\ templates[cur.records[r].template_id] = cur.records[q].field_specifiers

\* C27: a decoded data record holds exactly one value per field specifier of
\* the template it was decoded with.
C27_OneValuePerField ==
    \A k \in DOMAIN sets :
        sets[k].kind = "Data" =>
            \A r \in DOMAIN sets[k].records :
                Cardinality(DOMAIN sets[k].records[r].values) = Len(used[k])

\* C28: a message the writer emitted without error is accepted by the reader
\* with the same store and formatter, and reads back equal to the message
\* written.
C28_WriteThenRead ==
    (written.done /\ written.res.ok /\ input = written.res.val /\ pc \in {"done", "failed"}) =>
        /\ pc = "done"
        /\ result.ok
        /\ result.msg = written.msg

\* C29: writing a message whose encoded size exceeds 65535 bytes fails, and
\* a message that is written carries its size in its length fields, never the
\* size modulo 2^16.
C29_LengthsFit ==
    probe.op = "write_large" =>
        /\ probe.exact > U16MAX => probe.outcome # "ok"
        /\ probe.outcome = "ok" =>
              /\ probe.message_length = probe.exact
              /\ probe.set_length = probe.exact - HeaderSize
              /\ probe.emitted = probe.exact

\* Every set read so far, the one being read included, is a data set.
OnlyDataSets ==
    /\ \A k \in DOMAIN sets : sets[k].kind = "Data"
    /\ pc = "records" => cur.kind = "Data"

\* C30: writing a message, looking a template up, and reading a message of
\* data sets only, whether the read succeeds or fails, leave the template
\* store as it was; the store changes only in a step that reads a template
\* or options-template set, or in an install call.
C30_Frame ==
    /\ []((pc \in {"sets", "records", "done", "failed"} /\ OnlyDataSets) =>
              templates = store0)
    /\ [][/\ written' # written => templates' = templates
          /\ templates' # templates =>
                (pc = "records" /\ cur.kind \in {"Template", "OptionsTemplate"})
          /\ got' # got => storage' = storage
          /\ storage' # storage => got' = got]_vars

\* C30 witness: with a template in the store, a message of data sets only
\* was read and written back, and the store is as it was before the read.
C30_Witness ==
    /\ pc = "done"
    /\ written.done
    /\ written.res.ok
    /\ sets # <<>>
    /\ OnlyDataSets
    /\ store0 # <<>>
    /\ templates = store0

====
